---- MODULE Spec2Model ----
(***************************************************************************)
(* Model of utils/show.py: placement of a cloth rollout on the floor,      *)
(* colour adjustment, construction of the mesh sequence and its export as  *)
(* one OBJ file per frame.                                                 *)
(*                                                                         *)
(* Position arrays (T x V x 3) are sequences of frames, a frame is a       *)
(* sequence of vertices, a vertex is <<x, up, z>>: numpy axis k is tuple   *)
(* index k+1, so the "up" axis 1 is index 2.  Coordinates are integers:    *)
(* the arithmetic of place_meshes is modelled exactly, without rounding.   *)
(* Colour channels are exact rationals <<num, den>>; <<0, 0>> is the       *)
(* not-a-number that 0/0 produces.                                         *)
(***************************************************************************)
EXTENDS Integers, Sequences, FiniteSets, TLC

VARIABLES
    traj_dict,  \* the loaded rollout mapping (its arrays live on the heap)
    shift,      \* <<x_shift, y_shift>>
    ret,        \* what the last place_meshes call returned, <<>> before it
    min_z,      \* the floor offset of the last place_meshes call
    ncalls,     \* number of place_meshes calls made
    color,      \* the RGBA array handed to adjust_color
    cret,       \* what adjust_color returned, <<>> before the call
    outcome,    \* "none" | "returned" | "raised": how adjust_color ended
    seq_args,   \* add_seq's cloth_color, name, obstacle_opacity, cloth_opacity
    out,        \* the list of meshes add_seq returned, <<>> before the call
    entry,      \* "export" | "write_video": what the run executes
    pc,         \* where the run stands
    objects,    \* the meshes the run exports
    oi,         \* write_video's loop index i over objects
    fi,         \* the exporter's frame index i
    dirs,       \* the directories that exist
    fs,         \* the files that exist: name -> sequence of lines
    handle,     \* the name of the file open for writing, None when none is
    opened,     \* the names this run has opened for writing, in order
    err         \* "none", or what made the run fail

placeVars == <<traj_dict, shift, ret, min_z, ncalls>>
colorVars == <<color, cret, outcome>>
seqVars == <<seq_args, out>>
exportVars == <<entry, pc, objects, oi, fi, dirs, fs, handle, opened, err>>

\* ------------------------------------------------------------------ bounds
MaxT == 2
MaxV == 2
MaxCalls == 2
MaxChan == 4
MaxF == 2

\* Sample "up" coordinates and sample horizontal shifts <<x_shift, y_shift>>.
Ups == {-1, 0, 2}
Shifts == {<<0, 0>>, <<1, -1>>}

\* Python's None (an absent obstacle); every array of a rollout has at least
\* one frame, so the empty sequence is no array.
None == <<>>

\* ----------------------------------------------------------------- helpers
SetMin(S) == CHOOSE m \in S : \A x \in S : m <= x

\* a[:, :, 1]: the set of up-values over all frames; a[0, :, 1]: over frame 0.
UpAll(a) == {a[t][v][2] : t \in 1..Len(a), v \in 1..Len(a[1])}
UpFrame0(a) == {a[1][v][2] : v \in 1..Len(a[1])}

\* Translate with x_shift added to axis 2 as well.
Translate_x_on_both(a, dx, dz, dy) ==
    [t \in 1..Len(a) |->
        [v \in 1..Len(a[t]) |->
            <<a[t][v][1] + dx, a[t][v][2] - dz, a[t][v][3] + dx>>]]

\* a[..., 0] += dx; a[..., 1] -= dz; a[..., 2] += dy, on every frame and vertex
Translate(a, dx, dz, dy) ==
    [t \in 1..Len(a) |->
        [v \in 1..Len(a[t]) |->
            <<a[t][v][1] + dx, a[t][v][2] - dz, a[t][v][3] + dy>>]]

\* ------------------------------------------------------------ place_meshes
\* FloorOffset with the obstacle's minimum taken over its frame 0 only.
FloorOffset_obstacle_frame0(cloth_pos, obstacle_pos) ==
    IF obstacle_pos # None
    THEN SetMin({SetMin(UpFrame0(obstacle_pos)), SetMin(UpFrame0(cloth_pos))})
    ELSE SetMin(UpFrame0(cloth_pos)) - 2

\* FloorOffset with the cloth's minimum taken over all of its frames.
FloorOffset_cloth_all_frames(cloth_pos, obstacle_pos) ==
    IF obstacle_pos # None
    THEN SetMin({SetMin(UpAll(obstacle_pos)), SetMin(UpFrame0(cloth_pos))})
    ELSE SetMin(UpAll(cloth_pos)) - 2

\* The floor offset min_z of place_meshes.
FloorOffset(cloth_pos, obstacle_pos) ==
    IF obstacle_pos # None
    THEN SetMin({SetMin(UpAll(obstacle_pos)), SetMin(UpFrame0(cloth_pos))})
    ELSE SetMin(UpFrame0(cloth_pos)) - 2

\* place_meshes: the arrays are updated in place and the very same arrays are
\* returned; the record gives the contents of both arrays after the call.
place_meshes(cloth_pos, obstacle_pos, x_shift, y_shift) ==
    LET mz == FloorOffset(cloth_pos, obstacle_pos) IN
    [cloth_pos |-> Translate(cloth_pos, x_shift, mz, y_shift),
     obstacle_pos |-> IF obstacle_pos # None
                      THEN Translate(obstacle_pos, x_shift, mz, y_shift)
                      ELSE None,
     min_z |-> mz]

\* ------------------------------------------------------------ adjust_color
\* Exact arithmetic on <<num, den>> with den >= 0, kept in lowest terms.
\* den = 0 is a non-finite float: <<0, 0>> is nan, <<1, 0>> is +inf.
RECURSIVE Gcd(_, _)
Gcd(a, b) == IF b = 0 THEN a ELSE Gcd(b, a % b)

Abs(n) == IF n < 0 THEN -n ELSE n

NaN == <<0, 0>>
Inf == <<1, 0>>
IsNaN(r) == r = NaN
IsFinite(r) == r[2] > 0

Norm(n, d) == LET g == Gcd(Abs(n), d) IN <<n \div g, d \div g>>

RatLeq(a, b) == a[1] * b[2] <= b[1] * a[2]

\* a / b as numpy divides floats: 0/0 is nan, x/0 is inf (x > 0).
RatDiv(a, b) ==
    IF ~IsFinite(a) \/ ~IsFinite(b) THEN NaN
    ELSE IF b[1] = 0 THEN (IF a[1] = 0 THEN NaN ELSE Inf)
    ELSE IF b[1] > 0 THEN Norm(a[1] * b[2], a[2] * b[1])
    ELSE Norm(-(a[1] * b[2]), -(a[2] * b[1]))

RatMul(a, b) ==
    IF IsNaN(a) \/ IsNaN(b) THEN NaN
    ELSE IF ~IsFinite(a) \/ ~IsFinite(b)
         THEN (IF a[1] = 0 \/ b[1] = 0 THEN NaN ELSE Inf)
    ELSE Norm(a[1] * b[1], a[2] * b[2])

RatAdd(a, b) ==
    IF IsNaN(a) \/ IsNaN(b) THEN NaN
    ELSE IF ~IsFinite(a) \/ ~IsFinite(b) THEN Inf
    ELSE Norm(a[1] * b[2] + b[1] * a[2], a[2] * b[2])

\* color[..., :3].max(axis=-1): the largest of the first three channels.
RGBMax(c) == CHOOSE m \in {c[1], c[2], c[3]} : \A x \in {c[1], c[2], c[3]} : RatLeq(x, m)

\* adjust_color with the three steps applied to all four channels.
adjust_color_all_channels(c) ==
    LET m == RGBMax(c) IN
    [i \in 1..4 |-> RatAdd(RatMul(RatDiv(c[i], m), <<3, 10>>), <<3, 10>>)]

\* adjust_color: /= max, *= 0.3, += 0.3 on the first three channels, in
\* place; the array itself is returned. No branch raises.
adjust_color(c) ==
    LET m == RGBMax(c) IN
    [i \in 1..4 |->
        IF i <= 3
        THEN RatAdd(RatMul(RatDiv(c[i], m), <<3, 10>>), <<3, 10>>)
        ELSE c[i]]

\* ------------------------------------------------------- rollouts (inputs)
\* Position arrays with frames x verts vertices whose up-values are drawn
\* from Ups; the horizontal coordinates are distinct per vertex and frame.
PosArrays(frames, verts) ==
    {[t \in 1..frames |-> [v \in 1..verts |-> <<v, u[t][v], t>>]] :
        u \in [1..frames -> [1..verts -> Ups]]}

\* The one-frame cloth whose frame-0 up-values are [1, 5, 3].
ExampleCloth == << << <<1, 1, 1>>, <<2, 5, 1>>, <<3, 3, 1>> >> >>

\* Position arrays whose frame 0 has up-values drawn from Ups per vertex and
\* whose later frames are frame 0 moved up or down by an amount from Ups.
MovingArrays(frames, verts) ==
    {[t \in 1..frames |->
        [v \in 1..verts |-> <<v, u[v] + (IF t = 1 THEN 0 ELSE d[t]), t>>]] :
        u \in [1..verts -> Ups], d \in [2..frames -> Ups]}

ClothArrays == MovingArrays(MaxT, MaxV) \cup {ExampleCloth}
ObstacleArrays == PosArrays(MaxT, 1)

\* Position arrays whose vertices share one up-value per frame.
FlatArrays(frames, verts) ==
    {[t \in 1..frames |-> [v \in 1..verts |-> <<v, u[t], t>>]] :
        u \in [1..frames -> Ups]}

\* ------------------------------------------------------------- face arrays
\* A face array is a numpy array [shape, data] with data in row-major order:
\* static faces have shape <<F, 3>>, per-frame faces <<T, F, 3>>.
RECURSIVE Prod(_)
Prod(sh) == IF sh = <<>> THEN 1 ELSE Head(sh) * Prod(Tail(sh))

NDim(a) == Len(a.shape)

\* a[k] for a zero-based k: the k-th sub-array along axis 0.
Index(a, k) ==
    LET sz == Prod(Tail(a.shape)) IN
    [shape |-> Tail(a.shape), data |-> SubSeq(a.data, k * sz + 1, (k + 1) * sz)]

\* Face number k (zero-based) of the sample topology over MaxV vertices.
Face(k) == <<k % MaxV, (k + 1) % MaxV, (k + 2) % MaxV>>

RECURSIVE FaceData(_, _)
FaceData(first, n) == IF n = 0 THEN <<>> ELSE Face(first) \o FaceData(first + 1, n - 1)

RECURSIVE FrameData(_, _, _)
FrameData(t, frames, n) ==
    IF t = frames THEN <<>> ELSE FaceData(t, n) \o FrameData(t + 1, frames, n)

StaticFaces == {[shape |-> <<n, 3>>, data |-> FaceData(0, n)] : n \in 1..MaxF}
\* per-frame faces whose topology changes from frame to frame
PerFrameFaces ==
    {[shape |-> <<MaxT, n, 3>>, data |-> FrameData(0, MaxT, n)] : n \in 1..MaxF}
FaceArrays == StaticFaces \cup PerFrameFaces

\* The rollout mappings pickle_load can return: 'pred' and 'cloth_faces', and
\* 'obstacle' with 'obstacle_faces' when the rollout has an obstacle.
Rollouts ==
    {[pred |-> c, cloth_faces |-> cf] :
        c \in FlatArrays(MaxT, MaxV), cf \in FaceArrays}
    \cup
    {[pred |-> c, cloth_faces |-> cf, obstacle |-> o, obstacle_faces |-> of] :
        c \in FlatArrays(MaxT, MaxV), cf \in FaceArrays,
        o \in FlatArrays(MaxT, MaxV), of \in FaceArrays}

\* ----------------------------------------------------------------- add_seq
\* Meshes(vertices, faces, name=, color=) followed by backface_culling = False
Mesh(vertices, faces, name, col) ==
    [vertices |-> vertices, faces |-> faces, name |-> name, color |-> col,
     backface_culling |-> FALSE]

\* add_seq, from the loaded mapping td on: the meshes it returns and the
\* mapping as the call leaves it (place_meshes works on td's own arrays).
add_seq(td, x_shift, y_shift, cloth_color, name, obstacle_opacity, cloth_opacity) ==
    LET obstacle == "obstacle_faces" \in DOMAIN td
        per_frame == NDim(td.cloth_faces) = 3
        cloth_faces == IF per_frame THEN Index(td.cloth_faces, 0) ELSE td.cloth_faces
        obstacle_faces ==
            IF ~obstacle THEN None
            ELSE IF per_frame THEN Index(td.obstacle_faces, 0)
            ELSE td.obstacle_faces
        placed == place_meshes(td.pred, IF obstacle THEN td.obstacle ELSE None,
                               x_shift, y_shift)
        col == adjust_color(IF cloth_color = None
                            THEN << <<0, 1>>, <<3, 10>>, <<3, 10>>, cloth_opacity >>
                            ELSE cloth_color)
        obstacle_color == << <<3, 10>>, <<3, 10>>, <<3, 10>>, obstacle_opacity >>
        mesh_cloth == Mesh(placed.cloth_pos, cloth_faces, <<name, "_cloth">>, col)
        mesh_obstacle == Mesh(placed.obstacle_pos, obstacle_faces,
                              <<name, "_obstacle">>, obstacle_color)
    IN  [out |-> IF obstacle THEN <<mesh_cloth, mesh_obstacle>> ELSE <<mesh_cloth>>,
         traj_dict |-> IF obstacle
                       THEN [td EXCEPT !.pred = placed.cloth_pos,
                                       !.obstacle = placed.obstacle_pos]
                       ELSE [td EXCEPT !.pred = placed.cloth_pos]]

\* The exporter's variables while nothing is exported.
IdleExport ==
    /\ entry = "none"
    /\ pc = "idle"
    /\ objects = <<>>
    /\ oi = 0
    /\ fi = 0
    /\ dirs = {}
    /\ fs = <<>>
    /\ handle = None
    /\ opened = <<>>
    /\ err = "none"

\* ------------------------------------------------- specification SpecPlace
\* A caller holds a loaded rollout mapping and calls place_meshes on its
\* arrays, as add_seq does (lines 92-93), possibly more than once.
InitPlace ==
    /\ \E c \in ClothArrays, o \in ObstacleArrays \cup {None} :
          traj_dict = [pred |-> c, obstacle |-> o]
    /\ shift \in Shifts
    /\ ret = <<>>
    /\ min_z = 0
    /\ ncalls = 0
    /\ color = <<>>
    /\ cret = <<>>
    /\ outcome = "none"
    /\ seq_args = <<>>
    /\ out = <<>>
    /\ IdleExport

CallPlaceMeshes ==
    /\ ncalls < MaxCalls
    /\ LET r == place_meshes(traj_dict.pred, traj_dict.obstacle, shift[1], shift[2]) IN
          /\ traj_dict' = [pred |-> r.cloth_pos, obstacle |-> r.obstacle_pos]
          /\ ret' = <<r.cloth_pos, r.obstacle_pos>>
          /\ min_z' = r.min_z
    /\ ncalls' = ncalls + 1
    /\ UNCHANGED shift
    /\ UNCHANGED <<colorVars, seqVars, exportVars>>

vars == <<placeVars, colorVars, seqVars, exportVars>>

NextPlace == CallPlaceMeshes

SpecPlace == InitPlace /\ [][NextPlace]_vars

\* ------------------------------------------------- claims on place_meshes
Cloth == traj_dict.pred
Obstacle == traj_dict.obstacle
HasObstacle == traj_dict.obstacle # None

\* Every up-value of array b is the up-value of a minus d, same shape.
UpShifted(a, b, d) ==
    /\ Len(b) = Len(a)
    /\ \A t \in 1..Len(a) :
          /\ Len(b[t]) = Len(a[t])
          /\ \A v \in 1..Len(a[t]) : b[t][v][2] = a[t][v][2] - d

\* Axis 0 of b is axis 0 of a plus dx, axis 2 of b is axis 2 of a plus dy.
HorizShifted(a, b, dx, dy) ==
    /\ Len(b) = Len(a)
    /\ \A t \in 1..Len(a) :
          /\ Len(b[t]) = Len(a[t])
          /\ \A v \in 1..Len(a[t]) :
                /\ b[t][v][1] = a[t][v][1] + dx
                /\ b[t][v][3] = a[t][v][3] + dy

\* Minimum up-value taken jointly over cloth frame 0 and, when there is an
\* obstacle, all obstacle frames.
JointMin(td) ==
    SetMin(UpFrame0(td.pred) \cup
           (IF td.obstacle # None THEN UpAll(td.obstacle) ELSE {}))

\* C1: with an obstacle, the floor offset subtracted from axis 1 is the
\* minimum of the up-values of all obstacle frames and of cloth frame 0, and
\* after the call the joint minimum over cloth frame 0 and all obstacle
\* frames is exactly 0.
C1_ObstacleFloor ==
    [][(CallPlaceMeshes /\ HasObstacle) =>
          /\ min_z' = SetMin(UpAll(Obstacle) \cup UpFrame0(Cloth))
          /\ UpShifted(Cloth, Cloth', min_z')
          /\ UpShifted(Obstacle, Obstacle', min_z')
          /\ JointMin(traj_dict') = 0]_vars

\* C1 witness: a call with an obstacle whose lowest point lay in a later
\* obstacle frame (obstacle frame 0 now floats above the floor).
C1_Witness ==
    /\ ncalls = 1
    /\ HasObstacle
    /\ min_z = -1
    /\ SetMin(UpFrame0(Obstacle)) > 0
    /\ SetMin(UpFrame0(Cloth)) > 0
    /\ JointMin(traj_dict) = 0

C4_Pure ==
    [][CallPlaceMeshes =>
          /\ traj_dict' = traj_dict
          /\ Len(ret'[1]) = Len(Cloth)
          /\ ret # <<>> => ret' = ret]_vars


\* ------------------------------------------------- specification SpecColor
\* RGBA inputs: integer-valued first three channels 0..MaxChan (not
\* necessarily normalised), alpha 1/2 or 1.
Colors ==
    {<< <<r, 1>>, <<g, 1>>, <<b, 1>>, a >> :
        r \in 0..MaxChan, g \in 0..MaxChan, b \in 0..MaxChan,
        a \in {<<1, 2>>, <<1, 1>>}}

InitColor ==
    /\ color \in Colors
    /\ cret = <<>>
    /\ outcome = "none"
    /\ traj_dict = [pred |-> ExampleCloth, obstacle |-> None]
    /\ shift = <<0, 0>>
    /\ ret = <<>>
    /\ min_z = 0
    /\ ncalls = 0
    /\ seq_args = <<>>
    /\ out = <<>>
    /\ IdleExport

CallAdjustColor ==
    /\ outcome = "none"
    /\ color' = adjust_color(color)
    /\ cret' = color'
    /\ outcome' = "returned"
    /\ UNCHANGED <<placeVars, seqVars, exportVars>>

NextColor == CallAdjustColor

SpecColor == InitColor /\ [][NextColor]_vars

\* ------------------------------------------------- claims on adjust_color
AllZeroRGB(c) == c[1][1] = 0 /\ c[2][1] = 0 /\ c[3][1] = 0

\* res = 0.3 + 0.3 * (ch / m), by cross-multiplication
IsMuted(res, ch, m) ==
    /\ res[2] > 0
    /\ res[1] * (10 * ch[2] * m[1]) = res[2] * (3 * ch[2] * m[1] + 3 * ch[1] * m[2])

\* C5: for a colour whose first three channels are non-negative and not all
\* zero, each of the first three output channels is 0.3 + 0.3 * channel/max,
\* lies in [0.3, 0.6], the largest channel is exactly 0.6 and alpha is
\* unchanged; (2, 4, 4, 1.0) gives (0.45, 0.6, 0.6, 1.0).
C5_Muted ==
    [][(CallAdjustColor /\ ~AllZeroRGB(color)) =>
          /\ \A i \in 1..3 :
                /\ IsMuted(cret'[i], color[i], RGBMax(color))
                /\ RatLeq(<<3, 10>>, cret'[i]) /\ RatLeq(cret'[i], <<3, 5>>)
                /\ color[i] = RGBMax(color) => cret'[i] = <<3, 5>>
          /\ cret'[4] = color[4]
          /\ color = << <<2, 1>>, <<4, 1>>, <<4, 1>>, <<1, 1>> >> =>
                cret' = << <<9, 20>>, <<3, 5>>, <<3, 5>>, <<1, 1>> >>]_vars

\* C5 witness: adjust_color has returned (0.45, 0.6, 0.6, 1.0).
C5_Witness ==
    /\ outcome = "returned"
    /\ cret = << <<9, 20>>, <<3, 5>>, <<3, 5>>, <<1, 1>> >>

\* C6: adjust_color on a colour with all-zero RGB ends in an error and
\* returns no colour, and no not-a-number channel is ever produced.
C6_RejectsZero ==
    [][CallAdjustColor =>
          /\ AllZeroRGB(color) => (outcome' = "raised" /\ cret' = <<>>)
          /\ \A i \in 1..4 : ~IsNaN(color'[i])]_vars

\* --------------------------------------------------- specification SpecSeq
\* add_seq is called on a rollout file, with or without a cloth colour.
SeqColors ==
    {None,
     << <<1, 1>>, <<0, 1>>, <<4, 25>>, <<1, 1>> >>,
     << <<0, 1>>, <<0, 1>>, <<0, 1>>, <<1, 1>> >>}

InitSeq ==
    /\ traj_dict \in Rollouts
    /\ shift \in Shifts
    /\ \E c \in SeqColors :
          seq_args = [cloth_color |-> c, name |-> "None",
                      obstacle_opacity |-> <<1, 1>>, cloth_opacity |-> <<1, 1>>]
    /\ out = <<>>
    /\ ret = <<>>
    /\ min_z = 0
    /\ ncalls = 0
    /\ color = <<>>
    /\ cret = <<>>
    /\ outcome = "none"
    /\ IdleExport

CallAddSeq ==
    /\ out = <<>>
    /\ LET r == add_seq(traj_dict, shift[1], shift[2], seq_args.cloth_color,
                        seq_args.name, seq_args.obstacle_opacity,
                        seq_args.cloth_opacity) IN
          /\ out' = r.out
          /\ traj_dict' = r.traj_dict
    /\ UNCHANGED <<shift, ret, min_z, ncalls, colorVars, seq_args, exportVars>>

NextSeq == CallAddSeq

SpecSeq == InitSeq /\ [][NextSeq]_vars

\* ------------------------------------------------------ claims on add_seq
IsStaticFaces(a) == NDim(a) = 2 /\ a.shape[2] = 3

\* the face list the claim expects for a supplied face array
Frame0Faces(a) == IF NDim(a) = 3 THEN Index(a, 0) ELSE a

\* C10: every mesh add_seq returns carries a static face list (F x 3): a
\* per-frame face array is replaced by its frame-0 faces and a static one is
\* passed through unchanged, independently for cloth_faces and
\* obstacle_faces, for every combination of shapes of the two.
C10_StaticFaces ==
    out # <<>> =>
        /\ IsStaticFaces(out[1].faces)
        /\ out[1].faces = Frame0Faces(traj_dict.cloth_faces)
        /\ "obstacle_faces" \in DOMAIN traj_dict =>
              /\ Len(out) = 2
              /\ IsStaticFaces(out[2].faces)
              /\ out[2].faces = Frame0Faces(traj_dict.obstacle_faces)

\* ------------------------------------- export_animated_mesh_to_obj_sequence
RECURSIVE Digits(_)
Digits(n) == IF n < 10 THEN <<n>> ELSE Append(Digits(n \div 10), n % 10)

RECURSIVE ZeroPad(_, _)
ZeroPad(ds, width) == IF Len(ds) >= width THEN ds ELSE ZeroPad(<<0>> \o ds, width)

\* f"{i:04}": the decimal digits of i, zero-padded to at least 4
Fmt04(i) == ZeroPad(Digits(i), 4)

\* os.path.join(output_dir, f"{basename}_{i:04}.obj")
FrameFile(output_dir, basename, i) == <<output_dir, basename, Fmt04(i)>>

\* f"{x:.6f}" of an integer-valued coordinate
Fmt6f(x) == <<x, "000000">>

\* f"v {v[0]:.6f} {v[1]:.6f} {v[2]:.6f}\n"
VertexLine(v) == <<"v", Fmt6f(v[1]), Fmt6f(v[2]), Fmt6f(v[3])>>

\* FaceLine with the indices written as they are (zero-based).
FaceLine_zero_based(face) == <<"f", face.data[1], face.data[2], face.data[3]>>

\* f"f {int(face[0]+1)} {int(face[1]+1)} {int(face[2]+1)}\n" for a row of faces
FaceLine(face) == <<"f", face.data[1] + 1, face.data[2] + 1, face.data[3] + 1>>

\* "for face in faces" yields faces.shape[0] items; face[k] is a scalar, as
\* int() needs, only when the item is a one-dimensional row.
NumFaceRows(mesh) == mesh.faces.shape[1]
FaceRowsOk(mesh) == NDim(mesh.faces) = 2
NumFrames(mesh) == Len(mesh.vertices)
NumVerts(mesh, i) == Len(mesh.vertices[i + 1])

\* ------------------------------------------------------------ write_video
Root == <<"out_objs">>
\* p = f"{out_objs}/{i}/"
ObjDir(i) == <<"out_objs", i>>

\* cmap(0.) of the 'gist_rainbow' colour map
Cmap0 == << <<1, 1>>, <<0, 1>>, <<4, 25>>, <<1, 1>> >>

\* One cloth and one obstacle position array for the exported rollouts.
SamplePos(frames, verts, base) ==
    [t \in 1..frames |-> [v \in 1..verts |-> <<v, base + t * v, t>>]]

ExportRollouts ==
    {[pred |-> SamplePos(MaxT, MaxV, 0), cloth_faces |-> cf] : cf \in FaceArrays}
    \cup
    {[pred |-> SamplePos(MaxT, MaxV, 0), cloth_faces |-> cf,
      obstacle |-> SamplePos(MaxT, MaxV, -3), obstacle_faces |-> of] :
        cf \in FaceArrays, of \in FaceArrays}

\* What is on disk when the run starts: nothing, the output root only, or the
\* directories and frame files 0..MaxT of an earlier, longer export.
StaleNames == {FrameFile(ObjDir(o), "frame", i) : o \in 0..1, i \in 0..MaxT}
Disks ==
    {[dirs |-> {}, fs |-> <<>>],
     [dirs |-> {Root}, fs |-> <<>>],
     [dirs |-> {Root, ObjDir(0), ObjDir(1)},
      fs |-> [n \in StaleNames |-> <<"stale">>]]}

\* ------------------------------------------------------ specification Spec
\* A run either executes write_video, or builds the meshes with add_seq and
\* exports the cloth mesh with export_animated_mesh_to_obj_sequence.
Init ==
    /\ entry \in {"export", "write_video"}
    /\ pc = IF entry = "write_video" THEN "vid_makedirs" ELSE "add_seq"
    /\ traj_dict \in ExportRollouts
    /\ \E d \in Disks : dirs = d.dirs /\ fs = d.fs
    /\ objects = <<>>
    /\ oi = 0
    /\ fi = 0
    /\ handle = None
    /\ opened = <<>>
    /\ err = "none"
    /\ shift = <<0, 0>>
    /\ seq_args = [cloth_color |-> Cmap0, name |-> "None",
                   obstacle_opacity |-> <<1, 1>>, cloth_opacity |-> <<1, 1>>]
    /\ out = <<>>
    /\ ret = <<>>
    /\ min_z = 0
    /\ ncalls = 0
    /\ color = <<>>
    /\ cret = <<>>
    /\ outcome = "none"

others == <<shift, ret, min_z, ncalls, colorVars, seq_args>>

\* Raise that leaves the file handle open.
Raise_leaks_handle(kind) ==
    /\ pc' = "failed"
    /\ err' = kind
    /\ handle' = handle

\* An exception leaves the run: the with-statement closes the open file.
Raise(kind) ==
    /\ pc' = "failed"
    /\ err' = kind
    /\ handle' = None

\* os.makedirs(out_objs, exist_ok=True) succeeds
MakedirsRoot ==
    /\ pc = "vid_makedirs"
    /\ dirs' = dirs \cup {Root}
    /\ pc' = "add_seq"
    /\ UNCHANGED <<traj_dict, out, entry, objects, oi, fi, fs, handle, opened, err, others>>

\* os.makedirs(out_objs, exist_ok=True) raises
MakedirsRootFails ==
    /\ pc = "vid_makedirs"
    /\ Root \notin dirs
    /\ Raise("makedirs")
    /\ UNCHANGED <<traj_dict, out, entry, objects, oi, fi, dirs, fs, opened, others>>

\* pickle_load raises: the rollout file is missing or unreadable
LoadFails ==
    /\ pc = "add_seq"
    /\ Raise("load")
    /\ UNCHANGED <<traj_dict, out, entry, objects, oi, fi, dirs, fs, opened, others>>

\* add_seq(sequence_path, cloth_color=cmap(0.)) returns
AddSeq ==
    /\ pc = "add_seq"
    /\ LET r == add_seq(traj_dict, 0, 0, seq_args.cloth_color, seq_args.name,
                        seq_args.obstacle_opacity, seq_args.cloth_opacity) IN
          /\ traj_dict' = r.traj_dict
          /\ out' = r.out
          /\ objects' = IF entry = "write_video" THEN r.out ELSE <<r.out[1]>>
    /\ oi' = 0
    /\ pc' = IF entry = "write_video" THEN "vid_loop" ELSE "exp_mkdir"
    /\ UNCHANGED <<entry, fi, dirs, fs, handle, opened, err, others>>

\* Meshes(...) is library code: on a face array that is not F x 3 it may
\* raise instead of building the mesh
AddSeqMeshesRaises ==
    /\ pc = "add_seq"
    /\ LET r == add_seq(traj_dict, 0, 0, seq_args.cloth_color, seq_args.name,
                        seq_args.obstacle_opacity, seq_args.cloth_opacity) IN
          /\ \E k \in 1..Len(r.out) : ~FaceRowsOk(r.out[k])
          /\ traj_dict' = r.traj_dict
    /\ Raise("meshes")
    /\ UNCHANGED <<out, entry, objects, oi, fi, dirs, fs, opened, others>>

\* os.makedirs(p, exist_ok=True) in the loop over objects succeeds
MakedirsObj ==
    /\ pc = "vid_loop"
    /\ oi < Len(objects)
    /\ dirs' = dirs \cup {Root, ObjDir(oi)}
    /\ pc' = "exp_mkdir"
    /\ UNCHANGED <<traj_dict, out, entry, objects, oi, fi, fs, handle, opened, err, others>>

\* os.makedirs(p, exist_ok=True) raises
MakedirsObjFails ==
    /\ pc = "vid_loop"
    /\ oi < Len(objects)
    /\ ObjDir(oi) \notin dirs
    /\ Raise("makedirs")
    /\ UNCHANGED <<traj_dict, out, entry, objects, oi, fi, dirs, fs, opened, others>>

\* Path(output_dir).mkdir(parents=True, exist_ok=True) succeeds
ExportMkdir ==
    /\ pc = "exp_mkdir"
    /\ dirs' = dirs \cup {Root, ObjDir(oi)}
    /\ fi' = 0
    /\ pc' = "exp_frame"
    /\ UNCHANGED <<traj_dict, out, entry, objects, oi, fs, handle, opened, err, others>>

\* Path(output_dir).mkdir raises, with or without the parent created
ExportMkdirFails ==
    /\ pc = "exp_mkdir"
    /\ ObjDir(oi) \notin dirs
    /\ dirs' \in {dirs, dirs \cup {Root}}
    /\ Raise("mkdir")
    /\ UNCHANGED <<traj_dict, out, entry, objects, oi, fi, fs, opened, others>>

CurFile == FrameFile(ObjDir(oi), "frame", fi)

\* open(filename, 'w') succeeds: the file is created or truncated
OpenFrame ==
    /\ pc = "exp_frame"
    /\ fi < NumFrames(objects[oi + 1])
    /\ fs' = [n \in DOMAIN fs \cup {CurFile} |-> IF n = CurFile THEN <<>> ELSE fs[n]]
    /\ handle' = CurFile
    /\ opened' = Append(opened, CurFile)
    /\ pc' = "exp_write"
    /\ UNCHANGED <<traj_dict, out, entry, objects, oi, fi, dirs, err, others>>

\* open(filename, 'w') raises
OpenFails ==
    /\ pc = "exp_frame"
    /\ fi < NumFrames(objects[oi + 1])
    /\ Raise("open")
    /\ UNCHANGED <<traj_dict, out, entry, objects, oi, fi, dirs, fs, opened, others>>

Written == Len(fs[handle])

\* f.write of the next vertex line
WriteVertex ==
    /\ pc = "exp_write"
    /\ Written < NumVerts(objects[oi + 1], fi)
    /\ fs' = [fs EXCEPT ![handle] =
                 Append(@, VertexLine(objects[oi + 1].vertices[fi + 1][Written + 1]))]
    /\ UNCHANGED <<traj_dict, out, entry, pc, objects, oi, fi, dirs, handle, opened, err, others>>

\* f.write of the next face line
WriteFace ==
    /\ pc = "exp_write"
    /\ LET mesh == objects[oi + 1]
           k == Written - NumVerts(mesh, fi) IN
          /\ k >= 0
          /\ k < NumFaceRows(mesh)
          /\ FaceRowsOk(mesh)
          /\ fs' = [fs EXCEPT ![handle] = Append(@, FaceLine(Index(mesh.faces, k)))]
    /\ UNCHANGED <<traj_dict, out, entry, pc, objects, oi, fi, dirs, handle, opened, err, others>>

\* face[0] or int(face[0]+1) raises: the items of faces are not rows of scalars
FaceLineRaises ==
    /\ pc = "exp_write"
    /\ LET mesh == objects[oi + 1]
           k == Written - NumVerts(mesh, fi) IN
          /\ k >= 0
          /\ k < NumFaceRows(mesh)
          /\ ~FaceRowsOk(mesh)
    /\ Raise("format")
    /\ UNCHANGED <<traj_dict, out, entry, objects, oi, fi, dirs, fs, opened, others>>

\* f.write raises: the file keeps the lines written so far
WriteFails ==
    /\ pc = "exp_write"
    /\ Written < NumVerts(objects[oi + 1], fi) + NumFaceRows(objects[oi + 1])
    /\ Raise("write")
    /\ UNCHANGED <<traj_dict, out, entry, objects, oi, fi, dirs, fs, opened, others>>

\* the with-block ends: the file is closed and the loop goes to the next frame
CloseFrame ==
    /\ pc = "exp_write"
    /\ Written = NumVerts(objects[oi + 1], fi) + NumFaceRows(objects[oi + 1])
    /\ handle' = None
    /\ fi' = fi + 1
    /\ pc' = "exp_frame"
    /\ UNCHANGED <<traj_dict, out, entry, objects, oi, dirs, fs, opened, err, others>>

\* closing the file raises
CloseFails ==
    /\ pc = "exp_write"
    /\ Written = NumVerts(objects[oi + 1], fi) + NumFaceRows(objects[oi + 1])
    /\ Raise("close")
    /\ UNCHANGED <<traj_dict, out, entry, objects, oi, fi, dirs, fs, opened, others>>

\* the loop over frames is over: the exporter returns; write_video adds the
\* object to the scene and goes on with the next one
ExportReturns ==
    /\ pc = "exp_frame"
    /\ fi = NumFrames(objects[oi + 1])
    /\ IF entry = "write_video"
       THEN oi' = oi + 1 /\ pc' = "vid_loop"
       ELSE oi' = oi /\ pc' = "done"
    /\ UNCHANGED <<traj_dict, out, entry, objects, fi, dirs, fs, handle, opened, err, others>>

\* after the loop over objects: camera, renderer.run
VideoRuns ==
    /\ pc = "vid_loop"
    /\ oi = Len(objects)
    /\ pc' = "done"
    /\ UNCHANGED <<traj_dict, out, entry, objects, oi, fi, dirs, fs, handle, opened, err, others>>

Next ==
    \/ MakedirsRoot
    \/ MakedirsRootFails
    \/ LoadFails
    \/ AddSeq
    \/ AddSeqMeshesRaises
    \/ MakedirsObj
    \/ MakedirsObjFails
    \/ ExportMkdir
    \/ ExportMkdirFails
    \/ OpenFrame
    \/ OpenFails
    \/ WriteVertex
    \/ WriteFace
    \/ FaceLineRaises
    \/ WriteFails
    \/ CloseFrame
    \/ CloseFails
    \/ ExportReturns
    \/ VideoRuns

Spec == Init /\ [][Next]_vars

\* ------------------------------------------------- claims on the exporter
\* The names the run opened in the directory of object o, in order.
OpenedIn(o) == SelectSeq(opened, LAMBDA n : n[1] = ObjDir(o))

\* The name of frame i (i < 10) in the directory of object o: four digits.
NameOf(o, i) == <<ObjDir(o), "frame", <<0, 0, 0, i>>>>

\* File content the claims expect for frame i of a mesh with F x 3 faces:
\* the V vertices of frame i in order, then the F faces, indices plus 1.
ExpectedFile(mesh, i) ==
    LET V == Len(mesh.vertices[i + 1])
        F == mesh.faces.shape[1] IN
    [k \in 1..(V + F) |->
        IF k <= V
        THEN <<"v", <<mesh.vertices[i + 1][k][1], "000000">>,
                    <<mesh.vertices[i + 1][k][2], "000000">>,
                    <<mesh.vertices[i + 1][k][3], "000000">> >>
        ELSE <<"f", mesh.faces.data[3 * (k - V - 1) + 1] + 1,
                    mesh.faces.data[3 * (k - V - 1) + 2] + 1,
                    mesh.faces.data[3 * (k - V - 1) + 3] + 1>>]

\* The export of object o has completed without error.
Exported(o) ==
    /\ o + 1 <= Len(objects)
    /\ \/ o < oi
       \/ o = oi /\ pc = "done"
       \/ o = oi /\ pc = "exp_frame" /\ fi = Len(objects[o + 1].vertices)

\* C7: an export of a mesh with T frames, V vertices and F static faces that
\* completes without error has written exactly T files, named by the
\* zero-padded 4-digit frame index 0..T-1 in increasing order; file i holds
\* the V vertex lines of frame i followed by the F face lines, each listing
\* the three input indices increased by 1, the same in every file.
C7_ExportedFiles ==
    \A o \in 0..1 :
        Exported(o) =>
            LET mesh == objects[o + 1]
                T == Len(mesh.vertices) IN
            /\ OpenedIn(o) = [i \in 1..T |-> NameOf(o, i - 1)]
            /\ \A i \in 0..(T - 1) :
                  /\ NameOf(o, i) \in DOMAIN fs
                  /\ fs[NameOf(o, i)] = ExpectedFile(mesh, i)

\* C7 witness: write_video has finished after exporting a cloth and an
\* obstacle mesh into directories that held the files of an earlier export.
C7_Witness ==
    /\ pc = "done"
    /\ entry = "write_video"
    /\ Len(objects) = 2
    /\ Len(opened) = 2 * MaxT
    /\ fs[NameOf(1, MaxT)] = <<"stale">>
    /\ Len(fs[NameOf(1, MaxT - 1)]) = MaxV + objects[2].faces.shape[1]

FrameFailure == pc = "failed" /\ err \in {"open", "write", "close", "format"}

\* C8: if writing frame i fails the export aborts there: the files of frames
\* 0..i-1 exist with their complete content, no file of a frame j > i has
\* been created by the run, and every file handle opened so far is closed.
C8_NonTransactional ==
    /\ handle # None => (pc = "exp_write" /\ handle = CurFile)
    /\ FrameFailure =>
          /\ handle = None
          /\ ~ENABLED Next
          /\ \A j \in 0..(fi - 1) :
                /\ NameOf(oi, j) \in DOMAIN fs
                /\ fs[NameOf(oi, j)] = ExpectedFile(objects[oi + 1], j)
          /\ \A j \in (fi + 1)..(MaxT + 1) :
                \A k \in 1..Len(opened) : opened[k] # NameOf(oi, j)

\* C8 witness: a write has failed in a frame after the first, leaving that
\* frame's file partly written.
C8_Witness ==
    /\ pc = "failed"
    /\ err = "write"
    /\ fi >= 1
    /\ Len(fs[CurFile]) > 0
    /\ Len(fs[CurFile]) < MaxV + objects[oi + 1].faces.shape[1]
    /\ fs[NameOf(oi, fi - 1)] = ExpectedFile(objects[oi + 1], fi - 1)

\* C9: in every export run, when the creation of an output directory fails
\* no frame file has yet been written by that run.
C9_DirFailureBeforeFrames ==
    (pc = "failed" /\ err \in {"makedirs", "mkdir"}) => opened = <<>>

====
